---- MODULE Spec2Model ----
(***************************************************************************)
(* A model of backend/app.py: the Flask video backend's authentication,    *)
(* revocation and playback-token subsystem over its MongoDB collections.   *)
(*                                                                         *)
(* Time is counted in minutes since the service started.  Strings the code *)
(* inspects character by character (names, e-mails, passwords) are         *)
(* sequences of one-character strings.                                     *)
(***************************************************************************)
EXTENDS Integers, Sequences, FiniteSets, Bags, TLC

VARIABLES
    clock,          \* datetime.now(timezone.utc), in minutes
    users,          \* mongo.db.users: a set of user documents
    tokens,         \* mongo.db.tokens: the revocation entries
    issued,         \* every JWT the service has minted (what clients can present)
    inflight,       \* the requests whose handler is part-way: a bag of its locals
    handed,         \* the playback tokens GET /dashboard has handed out
    watch_history,  \* mongo.db.watch_history: a bag of watch events
    purged          \* history: the jtis whose revocation entry the store has deleted

vars == <<clock, users, tokens, issued, inflight, handed, watch_history, purged>>

----------------------------------------------------------------------------
(* Bounds of the model *)

MaxUsers == 2          \* user documents ever inserted
MaxJti == 4            \* JWTs ever minted
MaxInflight == 2       \* handlers running at once
MaxHours == 3          \* the playback clock visits h whole hours, h <= this
MaxCodes == 2          \* playback tokens handed out
MaxHistory == 1        \* watch events recorded
MaxWatches == 3        \* watch events recorded by POST /video/<id>/watch

(* Program constants *)

JWT_ACCESS_TOKEN_EXPIRES == 15
JWT_REFRESH_TOKEN_EXPIRES == 7 * 24 * 60
REVOKED_TTL == 7 * 24 * 60
MinPasswordLen == 6
MinutesPerHour == 60
HourOffsets == 3

----------------------------------------------------------------------------
(* Request inputs *)

NoData == [nodata |-> TRUE]
NoToken == [jti |-> 0, sub |-> 0, type |-> "none", exp |-> 0]

Emails == {<<"a">>, <<"A", " ">>, <<"b">>}
PwShort == <<"s", "e", "c", "r", "t">>
PwGood == <<"s", "e", "c", "r", "e", "t">>
PwOther == <<"s", "e", "c", "r", "e", "T">>

(* the bodies POSTed to signup: no JSON at all, well-formed ones, and one
   for each field left blank or too short *)
SignupBodies ==
    {NoData}
    \cup [name : {<<"J", "o">>}, email : Emails, password : {PwGood}]
    \cup {[name |-> << >>, email |-> <<"b">>, password |-> PwGood],
          [name |-> <<"J", "o">>, email |-> <<" ">>, password |-> PwGood],
          [name |-> <<"J", "o">>, email |-> <<"b">>, password |-> << >>],
          [name |-> <<"J", "o">>, email |-> <<"b">>, password |-> PwShort]}

(* the bodies POSTed to login *)
LoginBodies ==
    {NoData}
    \cup [email : Emails, password : {PwGood, PwOther}]
    \cup {[email |-> <<" ">>, password |-> PwGood],
          [email |-> <<"a">>, password |-> << >>]}

(* str.strip() and str.lower() *)

IsSpace(c) == c = " "

RECURSIVE LStrip(_)
LStrip(s) == IF s # << >> /\ IsSpace(Head(s)) THEN LStrip(Tail(s)) ELSE s

RECURSIVE RStrip(_)
RStrip(s) ==
    IF s # << >> /\ IsSpace(s[Len(s)]) THEN RStrip(SubSeq(s, 1, Len(s) - 1)) ELSE s

Strip(s) == RStrip(LStrip(s))

LowerChar(c) == CASE c = "A" -> "a" [] c = "B" -> "b" [] c = "J" -> "j" [] OTHER -> c

Lower(s) == [i \in DOMAIN s |-> LowerChar(s[i])]

(* the e-mail trimmed but not lower-cased *)
StripOnly(raw) == Strip(raw)

NormalizeEmail(raw) == Lower(Strip(raw))

(* bcrypt: the salt is left out; checkpw accepts exactly the hashed password *)

hash_password(password) == [alg |-> "bcrypt", of |-> password]

verify_password(password, hashed) == hashed = [alg |-> "bcrypt", of |-> password]

----------------------------------------------------------------------------
(* The document store *)

find_user_by_email(email) == {u \in users : u.email = email}

find_user_by_id(id) == {u \in users : u.id = id}

(* insert_one into a collection that has no unique index *)
users_insert_unchecked(doc) == TRUE

(* insert_one under the unique index on email: TRUE when the insert is
   accepted, FALSE when the store raises DuplicateKeyError *)
users_insert_ok(doc) == \A u \in users : u.email # doc.email

(* insert_one under the unique index on jti *)
tokens_insert_ok(entry) == \A e \in tokens : e.jti # entry.jti

(* uuid.uuid4(): a value never returned before *)
NewUserId == Cardinality(users) + 1

NewJti == Cardinality(issued) + 1

(* find_one: a matching document, or None *)
NoDoc == [id |-> 0]

find_one(matching) == IF matching = {} THEN NoDoc ELSE CHOOSE d \in matching : TRUE

----------------------------------------------------------------------------
(* flask_jwt_extended *)

(* create_access_token / create_refresh_token: a signed token with a fresh
   jti that expires JWT_*_TOKEN_EXPIRES after now *)
create_access_token(identity, jti) ==
    [jti |-> jti, sub |-> identity, type |-> "access",
     exp |-> clock + JWT_ACCESS_TOKEN_EXPIRES]

create_refresh_token(identity, jti) ==
    [jti |-> jti, sub |-> identity, type |-> "refresh",
     exp |-> clock + JWT_REFRESH_TOKEN_EXPIRES]

(* generate_tokens: an access and a refresh token for the user *)
generate_tokens(user_id) ==
    [access_token |-> create_access_token(user_id, NewJti),
     refresh_token |-> create_refresh_token(user_id, NewJti + 1)]

(* a loader that finds no token revoked *)
check_never_revoked(jwt_payload) == FALSE

(* a loader that finds revoked every token of a user who has logged out *)
check_if_user_revoked(jwt_payload) == \E e \in tokens : e.user_id = jwt_payload.sub

(* @jwt.token_in_blocklist_loader *)
check_if_token_revoked(jwt_payload) == \E e \in tokens : e.jti = jwt_payload.jti

(* the decorator without its check of the token's type *)
jwt_required_any_type(tok, refresh) ==
    IF tok = NoToken THEN 401
    ELSE IF clock >= tok.exp THEN 401
    ELSE IF check_if_token_revoked(tok) THEN 401
    ELSE 0

(* @jwt_required(refresh=...): 0 when the request may run the handler, else
   the status of the error response.  The extension decodes the token
   (signature, expiry), then checks its type, then asks the blocklist loader. *)
jwt_required(tok, refresh) ==
    IF tok = NoToken THEN 401
    ELSE IF clock >= tok.exp THEN 401
    ELSE IF tok.type # (IF refresh THEN "refresh" ELSE "access") THEN 422
    ELSE IF check_if_token_revoked(tok) THEN 401
    ELSE 0

----------------------------------------------------------------------------
(* Requests in flight *)

Accepting == BagCardinality(inflight) < MaxInflight

Enter(r) == inflight' = inflight (+) SetToBag({r})

Leave(r) == inflight' = inflight (-) SetToBag({r})

InFlight(op) == {r \in BagToSet(inflight) : r.op = op}

(* A handler's response is a function of its inputs and of the state it
   reads: X_status is the status code handler X returns (0: the handler goes
   on to its next step), and action X is what the handler does to the state. *)

----------------------------------------------------------------------------
(* POST /api/auth/signup *)

(* the handler without its find_one on the email *)
signup_status_no_lookup(data) ==
    IF data = NoData THEN 400
    ELSE IF Strip(data.name) = << >> \/ NormalizeEmail(data.email) = << >>
            \/ data.password = << >> THEN 400
    ELSE IF Len(data.password) < MinPasswordLen THEN 400
    ELSE 0

(* the handler without its check of the password's length *)
signup_status_any_length(data) ==
    IF data = NoData THEN 400
    ELSE IF Strip(data.name) = << >> \/ NormalizeEmail(data.email) = << >>
            \/ data.password = << >> THEN 400
    ELSE IF find_user_by_email(NormalizeEmail(data.email)) # {} THEN 409
    ELSE 0

(* the handler up to and including the find_one on the email *)
signup_status(data) ==
    IF data = NoData THEN 400
    ELSE IF Strip(data.name) = << >> \/ NormalizeEmail(data.email) = << >>
            \/ data.password = << >> THEN 400
    ELSE IF Len(data.password) < MinPasswordLen THEN 400
    ELSE IF find_user_by_email(NormalizeEmail(data.email)) # {} THEN 409
    ELSE 0

signup(data) ==
    /\ Accepting
    /\ IF signup_status(data) = 0
       THEN Enter([op |-> "signup", name |-> Strip(data.name),
                   email |-> NormalizeEmail(data.email), password |-> data.password])
       ELSE UNCHANGED inflight
    /\ UNCHANGED <<clock, users, tokens, issued, handed, watch_history, purged>>

(* the rest of the handler: insert_one, generate_tokens, the 201; a
   DuplicateKeyError from the unique index is caught by the handler's
   except clause and answered with 500 *)
new_user(r) ==
    [id |-> NewUserId, name |-> r.name, email |-> r.email,
     password_hash |-> hash_password(r.password), is_active |-> TRUE,
     last_login |-> -1, total_watch_time |-> 0]

signup_insert_status(r) == IF users_insert_ok(new_user(r)) THEN 201 ELSE 500

signup_insert(r) ==
    /\ r \in InFlight("signup")
    /\ Cardinality(users) < MaxUsers
    /\ Cardinality(issued) + 2 <= MaxJti
    /\ IF signup_insert_status(r) = 201
       THEN /\ users' = users \cup {new_user(r)}
            /\ issued' = issued \cup {generate_tokens(NewUserId).access_token,
                                      generate_tokens(NewUserId).refresh_token}
       ELSE UNCHANGED <<users, issued>>
    /\ Leave(r)
    /\ UNCHANGED <<clock, tokens, handed, watch_history, purged>>

(* the handler stopped between insert_one and generate_tokens: the worker
   is killed or the client gone, or generate_tokens raises and the except
   clause answers 500; the user document stays and no token is returned *)
signup_interrupted(r) ==
    /\ r \in InFlight("signup")
    /\ Cardinality(users) < MaxUsers
    /\ users_insert_ok(new_user(r))
    /\ users' = users \cup {new_user(r)}
    /\ Leave(r)
    /\ UNCHANGED <<clock, tokens, issued, handed, watch_history, purged>>

----------------------------------------------------------------------------
(* POST /api/auth/login *)

login_user(data) == find_one(find_user_by_email(NormalizeEmail(data.email)))

(* the handler without its check of is_active *)
login_status_ignoring_active(data) ==
    IF data = NoData THEN 400
    ELSE IF NormalizeEmail(data.email) = << >> \/ data.password = << >> THEN 400
    ELSE IF login_user(data) = NoDoc
            \/ ~verify_password(data.password, login_user(data).password_hash)
         THEN 401
    ELSE 200

login_status(data) ==
    IF data = NoData THEN 400
    ELSE IF NormalizeEmail(data.email) = << >> \/ data.password = << >> THEN 400
    ELSE IF login_user(data) = NoDoc
            \/ ~verify_password(data.password, login_user(data).password_hash)
         THEN 401
    ELSE IF ~login_user(data).is_active THEN 403
    ELSE 200

(* a body whose 401 tells an unknown e-mail from a wrong password *)
login_body_telling(data) ==
    CASE login_status(data) = 401 /\ login_user(data) = NoDoc ->
             [error |-> "User not found"]
      [] login_status(data) = 401 /\ login_user(data) # NoDoc ->
             [error |-> "Invalid credentials"]
      [] OTHER -> [error |-> "other"]

(* the JSON body of the response *)
login_body(data) ==
    CASE data = NoData -> [error |-> "No data provided"]
      [] login_status(data) = 400 -> [error |-> "Email and password are required"]
      [] login_status(data) = 401 -> [error |-> "Invalid credentials"]
      [] login_status(data) = 403 -> [error |-> "Account is deactivated"]
      [] OTHER -> [message |-> "Login successful",
                   user |-> [id |-> login_user(data).id,
                             name |-> login_user(data).name,
                             email |-> login_user(data).email],
                   tokens |-> generate_tokens(login_user(data).id)]

(* the "tokens" of the response body *)
login_tokens(data) == generate_tokens(login_user(data).id)

login(data) ==
    /\ IF login_status(data) = 200
       THEN /\ Cardinality(issued) + 2 <= MaxJti
            /\ issued' = issued \cup
                   {login_tokens(data).access_token, login_tokens(data).refresh_token}
            /\ users' = {IF u.id = login_user(data).id
                         THEN [u EXCEPT !.last_login = clock] ELSE u : u \in users}
       ELSE UNCHANGED <<users, issued>>
    /\ UNCHANGED <<clock, tokens, inflight, handed, watch_history, purged>>

----------------------------------------------------------------------------
(* POST /api/auth/refresh *)

(* a refresh endpoint that honours each refresh token once: it turns the
   token away when its user holds more access tokens than logins gave out *)
refresh_status_single_use(tok) ==
    IF jwt_required(tok, TRUE) # 0 THEN jwt_required(tok, TRUE)
    ELSE IF find_one(find_user_by_id(tok.sub)) = NoDoc THEN 404
    ELSE IF Cardinality({t \in issued : t.sub = tok.sub /\ t.type = "access"})
              > Cardinality({t \in issued : t.sub = tok.sub /\ t.type = "refresh"})
         THEN 401
    ELSE 200

refresh_status(tok) ==
    IF jwt_required(tok, TRUE) # 0 THEN jwt_required(tok, TRUE)
    ELSE IF find_one(find_user_by_id(tok.sub)) = NoDoc THEN 404
    ELSE 200

(* the access_token of the response body, if the response has one *)
refresh_mints(tok) ==
    IF refresh_status(tok) = 200 THEN {create_access_token(tok.sub, NewJti)} ELSE {}

refresh(tok) ==
    /\ Cardinality(issued \cup refresh_mints(tok)) <= MaxJti
    /\ issued' = issued \cup refresh_mints(tok)
    /\ UNCHANGED <<clock, users, tokens, inflight, handed, watch_history, purged>>

----------------------------------------------------------------------------
(* GET /api/auth/me *)

get_current_user_status(tok) ==
    IF jwt_required(tok, FALSE) # 0 THEN jwt_required(tok, FALSE)
    ELSE IF find_one(find_user_by_id(tok.sub)) = NoDoc THEN 404
    ELSE 200

get_current_user(tok) ==
    /\ get_current_user_status(tok) \in {200, 401, 404, 422}
    /\ UNCHANGED vars

----------------------------------------------------------------------------
(* POST /api/auth/logout *)

(* the decorator: the request is rejected, or the handler is entered with
   the token's claims *)
logout_status(tok) == jwt_required(tok, FALSE)

(* a logout that writes the presented jti to the registry before the
   decorator has verified the token *)
logout_eager(tok) ==
    /\ Accepting
    /\ tok # NoToken
    /\ tokens' = tokens \cup {[jti |-> tok.jti, user_id |-> tok.sub, revoked_at |-> clock]}
    /\ IF logout_status(tok) = 0
       THEN Enter([op |-> "logout", tok |-> tok])
       ELSE UNCHANGED inflight
    /\ UNCHANGED <<clock, users, issued, handed, watch_history, purged>>

logout(tok) ==
    /\ Accepting
    /\ IF logout_status(tok) = 0
       THEN Enter([op |-> "logout", tok |-> tok])
       ELSE UNCHANGED inflight
    /\ UNCHANGED <<clock, users, tokens, issued, handed, watch_history, purged>>

(* the handler body: insert_one into the tokens collection, then 200; a
   DuplicateKeyError from the unique index on jti is answered with 500 *)
revocation(r) == [jti |-> r.tok.jti, user_id |-> r.tok.sub, revoked_at |-> clock]

logout_insert_status(r) == IF tokens_insert_ok(revocation(r)) THEN 200 ELSE 500

logout_insert(r) ==
    /\ r \in InFlight("logout")
    /\ IF logout_insert_status(r) = 200
       THEN tokens' = tokens \cup {revocation(r)}
       ELSE UNCHANGED tokens
    /\ Leave(r)
    /\ UNCHANGED <<clock, users, issued, handed, watch_history, purged>>

----------------------------------------------------------------------------
(* Playback tokens *)

SECRET_KEY == "server-secret"

(* mongo.db.videos, in the order find() returns them; no modelled handler
   writes to it *)
videos ==
    << [id |-> "v1", is_active |-> TRUE],
       [id |-> "v2", is_active |-> TRUE],
       [id |-> "v3", is_active |-> FALSE] >>

VideoIds == {"v1", "v2", "v3", "v0"}

find_video_by_id(video_id) == {videos[i] : i \in {j \in DOMAIN videos : videos[j].id = video_id}}

(* datetime.isoformat(): the text of an instant, to the clock's resolution *)
isoformat(t) == [hour |-> t \div MinutesPerHour, minute |-> t % MinutesPerHour]

(* the data with the user left out *)
playback_data_without_user(video_id, user_id, timestamp) ==
    <<video_id, timestamp, SECRET_KEY>>

(* f"{video_id}:{user_id}:{timestamp}:{SECRET_KEY}" *)
playback_data(video_id, user_id, timestamp) ==
    <<video_id, user_id, timestamp, SECRET_KEY>>

(* hashlib.sha256(...).hexdigest(), taken to be free of collisions *)
sha256_hexdigest(data) == [sha256 |-> data]

generate_playback_token(video_id, user_id) ==
    sha256_hexdigest(playback_data(video_id, user_id, isoformat(clock)))

verify_playback_token(video_id, user_id, token) ==
    \E hour_offset \in 0 .. HourOffsets - 1 :
        token = sha256_hexdigest(
                    playback_data(video_id, user_id,
                                  isoformat(clock - hour_offset * MinutesPerHour)))

(* the ?token= values a client may send: none, a malformed one, or any
   playback token the service has handed out *)
NoCode == [none |-> TRUE]
Garbage == [sha256 |-> <<"garbage">>]
Codes == {NoCode, Garbage} \cup {h.code : h \in handed}

----------------------------------------------------------------------------
(* GET /api/dashboard *)

Pages == {1, 2}
PerPages == {1, 2}

RECURSIVE SelectActive(_)
SelectActive(vs) ==
    IF vs = << >> THEN << >>
    ELSE IF Head(vs).is_active THEN <<Head(vs)>> \o SelectActive(Tail(vs))
    ELSE SelectActive(Tail(vs))

(* find({'is_active': True}).skip((page - 1) * per_page).limit(per_page) *)
dashboard_page(page, per_page) ==
    LET active == SelectActive(videos)
        first == (page - 1) * per_page + 1
        last == IF first + per_page - 1 < Len(active)
                THEN first + per_page - 1 ELSE Len(active)
    IN  SubSeq(active, first, last)

get_dashboard_status(tok, page, per_page) ==
    IF jwt_required(tok, FALSE) # 0 THEN jwt_required(tok, FALSE) ELSE 200

(* the playback_token of each item of the response; "at" records when it
   was generated *)
dashboard_tokens(tok, page, per_page) ==
    LET shown == dashboard_page(page, per_page)
    IN  {[video |-> shown[i].id, user |-> tok.sub,
          code |-> generate_playback_token(shown[i].id, tok.sub), at |-> clock] :
         i \in DOMAIN shown}

get_dashboard(tok, page, per_page) ==
    /\ IF get_dashboard_status(tok, page, per_page) = 200
       THEN /\ handed' = handed \cup dashboard_tokens(tok, page, per_page)
            /\ Cardinality(handed') <= MaxCodes
       ELSE UNCHANGED handed
    /\ UNCHANGED <<clock, users, tokens, issued, inflight, watch_history, purged>>

----------------------------------------------------------------------------
(* GET /api/video/<video_id>/stream *)

(* the handler without its check of the playback token *)
get_video_stream_status_any_code(tok, video_id, token) ==
    IF jwt_required(tok, FALSE) # 0 THEN jwt_required(tok, FALSE)
    ELSE IF find_one(find_video_by_id(video_id)) = NoDoc THEN 404
    ELSE IF ~find_one(find_video_by_id(video_id)).is_active THEN 403
    ELSE 200

get_video_stream_status(tok, video_id, token) ==
    IF jwt_required(tok, FALSE) # 0 THEN jwt_required(tok, FALSE)
    ELSE IF token = NoCode \/ ~verify_playback_token(video_id, tok.sub, token) THEN 403
    ELSE IF find_one(find_video_by_id(video_id)) = NoDoc THEN 404
    ELSE IF ~find_one(find_video_by_id(video_id)).is_active THEN 403
    ELSE 200

(* the stream descriptor of the 200, or the error *)
stream_data(video_id, status) ==
    IF status = 200
    THEN [video_id |-> video_id, stream |-> [type |-> "youtube_embed"]]
    ELSE [error |-> status]

(* a handler whose failed insert_one reaches the outer except clause *)
get_video_stream_response_failing(tok, video_id, token, log_ok) ==
    LET status == IF get_video_stream_status(tok, video_id, token) = 200 /\ ~log_ok
                  THEN 500 ELSE get_video_stream_status(tok, video_id, token)
    IN  [status |-> status, body |-> stream_data(video_id, status)]

(* the response: the insert_one into watch_history sits in its own
   try/except, after the descriptor is built and before the return *)
get_video_stream_response(tok, video_id, token, log_ok) ==
    [status |-> get_video_stream_status(tok, video_id, token),
     body |-> stream_data(video_id, get_video_stream_status(tok, video_id, token))]

(* log_ok: whether the insert_one into watch_history succeeds; its failure
   is caught and logged, and the 200 is returned all the same.  The event's
   watched_at, which no handler reads, is left out. *)
get_video_stream(tok, video_id, token, log_ok) ==
    /\ IF get_video_stream_status(tok, video_id, token) = 200 /\ log_ok
       THEN /\ BagCardinality(watch_history) < MaxHistory
            /\ watch_history' = watch_history (+) SetToBag({
                   [user_id |-> tok.sub, video_id |-> video_id,
                    action |-> "stream_requested"]})
       ELSE UNCHANGED watch_history
    /\ UNCHANGED <<clock, users, tokens, issued, inflight, handed, purged>>

(* POST /api/video/<video_id>/watch: the response *)
track_video_watch_status(tok, video_id) ==
    IF jwt_required(tok, FALSE) # 0 THEN jwt_required(tok, FALSE)
    ELSE IF find_one(find_video_by_id(video_id)) = NoDoc THEN 404
    ELSE 200

(* the bodies POSTed to watch: none, or a progress in seconds *)
WatchBodies == {NoData, [progress_seconds |-> 1], [progress_seconds |-> 2]}

(* data.get('progress_seconds', 0) of request.get_json() or {} *)
progress_of(data) == IF data = NoData THEN 0 ELSE data.progress_seconds

(* the watch event; its watched_at and the fields no handler reads are
   left out *)
watch_record(tok, video_id, data) ==
    [user_id |-> tok.sub, video_id |-> video_id, progress_seconds |-> progress_of(data)]

(* the handler up to and including the insert_one into watch_history *)
track_video_watch(tok, video_id, data) ==
    /\ Accepting
    /\ IF track_video_watch_status(tok, video_id) = 200
       THEN /\ BagCardinality(watch_history) < MaxWatches
            /\ watch_history' = watch_history (+) SetToBag({watch_record(tok, video_id, data)})
            /\ Enter([op |-> "watch", user_id |-> tok.sub,
                      progress_seconds |-> progress_of(data)])
       ELSE UNCHANGED <<watch_history, inflight>>
    /\ UNCHANGED <<clock, users, tokens, issued, handed, purged>>

(* an update that $sets total_watch_time to the progress *)
track_video_watch_set(r) ==
    /\ r \in InFlight("watch")
    /\ users' = {IF u.id = r.user_id
                 THEN [u EXCEPT !.total_watch_time = r.progress_seconds]
                 ELSE u : u \in users}
    /\ Leave(r)
    /\ UNCHANGED <<clock, tokens, issued, handed, watch_history, purged>>

(* the rest of the handler: update_one with $inc on total_watch_time, which
   the store applies to the document atomically and which counts a missing
   field as 0; then the 200.  The $set of last_watch_at is left out. *)
track_video_watch_update(r) ==
    /\ r \in InFlight("watch")
    /\ users' = {IF u.id = r.user_id
                 THEN [u EXCEPT !.total_watch_time = @ + r.progress_seconds]
                 ELSE u : u \in users}
    /\ Leave(r)
    /\ UNCHANGED <<clock, tokens, issued, handed, watch_history, purged>>

----------------------------------------------------------------------------
(* The store's own housekeeping and the world around the service *)

(* a store that may delete a revocation entry at any time *)
purge_at_any_time(e) ==
    /\ e \in tokens
    /\ tokens' = tokens \ {e}
    /\ purged' = purged \cup {e.jti}
    /\ UNCHANGED <<clock, users, issued, inflight, handed, watch_history>>

(* the TTL index on revoked_at: the store may delete an entry at any time
   from expireAfterSeconds after its revoked_at on *)
purge(e) ==
    /\ e \in tokens
    /\ clock >= e.revoked_at + REVOKED_TTL
    /\ tokens' = tokens \ {e}
    /\ purged' = purged \cup {e.jti}
    /\ UNCHANGED <<clock, users, issued, inflight, handed, watch_history>>

(* an operator clears a user's is_active flag in the store *)
deactivate(id) ==
    /\ \E u \in users : u.id = id /\ u.is_active
    /\ users' = {IF u.id = id THEN [u EXCEPT !.is_active = FALSE] ELSE u : u \in users}
    /\ UNCHANGED <<clock, tokens, issued, inflight, handed, watch_history, purged>>

(* the instants the clock visits: the start, and the ends of the access
   lifetime, of the refresh lifetime and of the revocation retention counted
   from there *)
Instants == {0, JWT_ACCESS_TOKEN_EXPIRES, JWT_REFRESH_TOKEN_EXPIRES, REVOKED_TTL}

Tick(t) ==
    /\ t > clock
    /\ clock' = t
    /\ UNCHANGED <<users, tokens, issued, inflight, handed, watch_history, purged>>

----------------------------------------------------------------------------
(* The authentication service *)

Tokens == issued \cup {NoToken}

Init ==
    /\ clock = 0
    /\ users = {}
    /\ tokens = {}
    /\ issued = {}
    /\ inflight = EmptyBag
    /\ handed = {}
    /\ watch_history = EmptyBag
    /\ purged = {}

Next ==
    \/ \E data \in SignupBodies : signup(data)
    \/ \E r \in BagToSet(inflight) : signup_insert(r)
    \/ \E data \in LoginBodies : login(data)
    \/ \E tok \in Tokens : refresh(tok)
    \/ \E tok \in Tokens : get_current_user(tok)
    \/ \E tok \in Tokens : logout(tok)
    \/ \E r \in BagToSet(inflight) : logout_insert(r)
    \/ \E e \in tokens : purge(e)
    \/ \E id \in 1 .. MaxUsers : deactivate(id)
    \/ \E t \in Instants : Tick(t)

Spec == Init /\ [][Next]_vars

----------------------------------------------------------------------------
(* Signup, with handlers that may be stopped half-way, and login *)

NextInterrupted ==
    \/ \E data \in SignupBodies : signup(data)
    \/ \E r \in BagToSet(inflight) : signup_insert(r)
    \/ \E r \in BagToSet(inflight) : signup_interrupted(r)
    \/ \E data \in LoginBodies : login(data)
    \/ \E tok \in Tokens : refresh(tok)
    \/ \E id \in 1 .. MaxUsers : deactivate(id)
    \/ \E t \in Instants : Tick(t)

SpecInterrupted == Init /\ [][NextInterrupted]_vars

----------------------------------------------------------------------------
(* The playback-token subsystem: two signed-up users, each presenting the
   access token a login at that instant returns, over a clock that visits
   the first two minutes of some hours *)

PlaybackInstants == {h * MinutesPerHour + m : h \in 0 .. MaxHours, m \in {0, 1}}

SignedUp(id, email) ==
    [id |-> id, name |-> <<"J", "o">>, email |-> email,
     password_hash |-> hash_password(PwGood), is_active |-> TRUE, last_login |-> -1,
     total_watch_time |-> 0]

(* the insert into watch_history is only attempted on the way to a 200 *)
LogOutcomes(tok, video_id, token) ==
    IF get_video_stream_status(tok, video_id, token) = 200 THEN BOOLEAN ELSE {TRUE}

LoggedIn == {NoToken} \cup {create_access_token(u.id, NewJti) : u \in users}

InitPlayback ==
    /\ clock = 0
    /\ users = {SignedUp(1, <<"a">>), SignedUp(2, <<"b">>)}
    /\ tokens = {}
    /\ issued = {}
    /\ inflight = EmptyBag
    /\ handed = {}
    /\ watch_history = EmptyBag
    /\ purged = {}

NextPlayback ==
    \/ \E tok \in LoggedIn, page \in Pages, per_page \in PerPages :
           get_dashboard(tok, page, per_page)
    \/ \E tok \in LoggedIn, video_id \in VideoIds, token \in Codes :
           \E log_ok \in LogOutcomes(tok, video_id, token) :
               get_video_stream(tok, video_id, token, log_ok)
    \/ \E t \in PlaybackInstants : Tick(t)

SpecPlayback == InitPlayback /\ [][NextPlayback]_vars

----------------------------------------------------------------------------
(* The protected endpoints together: a signed-up user logs in, calls the
   endpoints with any token the service has minted, or none, and logs out *)

InitProtected ==
    /\ clock = 0
    /\ users = {SignedUp(1, <<"a">>)}
    /\ tokens = {}
    /\ issued = {}
    /\ inflight = EmptyBag
    /\ handed = {}
    /\ watch_history = EmptyBag
    /\ purged = {}

NextProtected ==
    \/ \E data \in LoginBodies : login(data)
    \/ \E tok \in Tokens : refresh(tok)
    \/ \E tok \in Tokens : get_current_user(tok)
    \/ \E tok \in Tokens : logout(tok)
    \/ \E r \in BagToSet(inflight) : logout_insert(r)
    \/ \E e \in tokens : purge(e)
    \/ \E tok \in Tokens : get_dashboard(tok, 1, 1)
    \/ \E tok \in Tokens, video_id \in {"v1", "v0"}, token \in Codes :
           \E log_ok \in LogOutcomes(tok, video_id, token) :
               get_video_stream(tok, video_id, token, log_ok)
    \/ \E t \in Instants : Tick(t)

SpecProtected == InitProtected /\ [][NextProtected]_vars

----------------------------------------------------------------------------
(* Watch tracking: two signed-up users report their progress, with several
   requests running at once *)

NextWatch ==
    \/ \E tok \in LoggedIn, video_id \in VideoIds, data \in WatchBodies :
           track_video_watch(tok, video_id, data)
    \/ \E r \in BagToSet(inflight) : track_video_watch_update(r)

SpecWatch == InitPlayback /\ [][NextWatch]_vars

----------------------------------------------------------------------------
(* Properties of the playback tokens, under SpecPlayback *)

HourBucket(t) == t \div MinutesPerHour

UserIds == {u.id : u \in users}

(* the access tokens with which user id may call the service now *)
LoggedInAs(id) == {tok \in LoggedIn : tok.sub = id}

(* C2: a playback token verifies for its own video and user at every
   instant of the hour bucket it was generated in, and GET /video/{id}/stream
   accepts a token GET /dashboard handed to the same user for the same video *)
C2_RoundTrip ==
    \A h \in handed :
        HourBucket(clock) = HourBucket(h.at) =>
            /\ verify_playback_token(h.video, h.user, h.code)
            /\ \A tok \in LoggedInAs(h.user) :
                   get_video_stream_status(tok, h.video, h.code) = 200

(* C3: a playback token generated in hour bucket N verifies in buckets N,
   N+1 and N+2, and in no later bucket *)
C3_Window ==
    \A h \in handed :
        LET age == HourBucket(clock) - HourBucket(h.at)
        IN  /\ age \in 0 .. HourOffsets - 1 =>
                   verify_playback_token(h.video, h.user, h.code)
            /\ age >= HourOffsets => ~verify_playback_token(h.video, h.user, h.code)

(* C4: two playback tokens generated for the same video and user inside
   the same hour bucket are the same code *)
C4_Deterministic ==
    \A h1, h2 \in handed :
        (/\ h1.video = h2.video
         /\ h1.user = h2.user
         /\ HourBucket(h1.at) = HourBucket(h2.at)) => h1.code = h2.code

(* C5: a playback token never verifies for another video or another user
   than the pair it was generated for, and the stream endpoint never
   answers 200 to such a request *)
C5_BoundToPair ==
    \A h \in handed : \A v \in VideoIds : \A u \in UserIds :
        (v # h.video \/ u # h.user) =>
            /\ ~verify_playback_token(v, u, h.code)
            /\ \A tok \in LoggedInAs(u) : get_video_stream_status(tok, v, h.code) # 200

(* a token that verifies for its own pair has been streamed, and there is
   another user and another video to present it for *)
C5_Witness ==
    \E h \in handed :
        /\ verify_playback_token(h.video, h.user, h.code)
        /\ BagIn([user_id |-> h.user, video_id |-> h.video,
                  action |-> "stream_requested"], watch_history)
        /\ \E u \in UserIds : u # h.user
        /\ \E v \in VideoIds : v # h.video /\ find_video_by_id(v) # {}

----------------------------------------------------------------------------
(* Properties of the authentication service, under Spec *)

IsRevoked(tok) == \E e \in tokens : e.jti = tok.jti

(* the status codes with which each access-protected endpoint can answer a
   request that presents tok *)
AccessStatuses(tok) ==
    {get_current_user_status(tok), logout_status(tok)}
    \cup {get_dashboard_status(tok, page, per_page) : page \in Pages, per_page \in PerPages}
    \cup {get_video_stream_status(tok, v, c) : v \in VideoIds, c \in Codes}
    \cup {track_video_watch_status(tok, v) : v \in VideoIds}

(* C1: while the revocation entry of an issued token is in the registry,
   every access-protected endpoint answers a request presenting that token
   with 401, whether or not the token has expired *)
C1_RevokedRejected ==
    \A tok \in issued : IsRevoked(tok) => AccessStatuses(tok) = {401}

(* a logout has revoked a token that has not expired *)
C1_Witness ==
    \E tok \in issued :
        /\ IsRevoked(tok)
        /\ clock < tok.exp
        /\ get_current_user_status(tok) = 401

(* C6: of two concurrent signups with the same normalized email one is
   answered 201 and the other 409: a signup that is past its lookup is
   answered 201 or 409, never 500 *)
C6_ConcurrentSignup ==
    \A r \in InFlight("signup") : signup_insert_status(r) \in {201, 409}

(* C7: the user store holds at most one user per trimmed, lower-cased
   e-mail *)
C7_UniqueEmail ==
    \A u1, u2 \in users :
        NormalizeEmail(u1.email) = NormalizeEmail(u2.email) => u1 = u2

(* a user is stored while a concurrent signup with the same e-mail is past
   its lookup, and another user with another e-mail is stored too *)
C7_Witness ==
    /\ \E u \in users : \E r \in InFlight("signup") : r.email = u.email
    /\ Cardinality(users) = 2

(* C8: a logout whose jti is already in the registry, such as the second
   of two logouts that both passed the blocklist check, is answered 200 and
   leaves exactly one entry for that jti *)
C8_RevokeIdempotent ==
    \A r \in InFlight("logout") :
        IsRevoked(r.tok) =>
            /\ logout_insert_status(r) = 200
            /\ Cardinality({e \in tokens : e.jti = r.tok.jti}) = 1

(* C9: refresh rejects every issued access token and mints nothing for it;
   every access-protected endpoint rejects every issued refresh token, no
   logout handler runs with one and none is ever in the registry *)
C9_KindsSeparate ==
    /\ \A tok \in issued :
           /\ tok.type = "access" =>
                  refresh_status(tok) \in {401, 422} /\ refresh_mints(tok) = {}
           /\ tok.type = "refresh" =>
                  AccessStatuses(tok) \subseteq {401, 422} /\ ~IsRevoked(tok)
    /\ \A r \in InFlight("logout") : r.tok.type = "access"

(* an access and a refresh token, neither expired nor revoked, are each
   turned away by the other kind's endpoint *)
C9_Witness ==
    \E a, r \in issued :
        /\ a.type = "access" /\ refresh_status(a) = 422
        /\ r.type = "refresh" /\ AccessStatuses(r) = {422}
        /\ get_current_user_status(a) = 200 /\ refresh_status(r) = 200

(* C10: refresh mints an access token only for a subject that exists and
   is active in the user store *)
C10_RefreshNeedsActive ==
    \A tok \in issued :
        refresh_mints(tok) # {} =>
            \E u \in users : u.id = tok.sub /\ u.is_active

(* the login bodies that carry the password user u signed up with and a
   case or whitespace variant of u's e-mail *)
LoginsOf(u) ==
    {data \in LoginBodies \ {NoData} :
        /\ Lower(Strip(data.email)) = Lower(Strip(u.email))
        /\ hash_password(data.password) = u.password_hash}

(* C11: for every stored user that has not been deactivated, a login with
   the signup password and any case or whitespace variant of the e-mail is
   answered 200 for that user's id, with an access token the access-protected
   endpoints accept and a refresh token POST /auth/refresh accepts *)
C11_SignupThenLogin ==
    \A u \in users : u.is_active =>
        \A data \in LoginsOf(u) :
            /\ login_status(data) = 200
            /\ login_user(data).id = u.id
            /\ login_tokens(data).access_token.sub = u.id
            /\ login_tokens(data).refresh_token.sub = u.id
            /\ jwt_required(login_tokens(data).access_token, FALSE) = 0
            /\ get_current_user_status(login_tokens(data).access_token) = 200
            /\ refresh_status(login_tokens(data).refresh_token) = 200

(* a user has logged in, and the upper-case, padded variant of the user's
   e-mail logs in too *)
C11_Witness ==
    \E u \in users :
        /\ u.is_active /\ u.last_login >= 0 /\ u.email = <<"a">>
        /\ [email |-> <<"A", " ">>, password |-> PwGood] \in LoginsOf(u)
        /\ login_status([email |-> <<"A", " ">>, password |-> PwGood]) = 200

(* the login bodies with an e-mail and a password in them *)
FilledLogins ==
    {data \in LoginBodies \ {NoData} :
        NormalizeEmail(data.email) # << >> /\ data.password # << >>}

(* a registered e-mail with a wrong password *)
WrongPassword(data) ==
    \E u \in users :
        /\ u.email = Lower(Strip(data.email))
        /\ u.password_hash # hash_password(data.password)

(* an e-mail no user has *)
Unregistered(data) == \A u \in users : u.email # Lower(Strip(data.email))

(* C12: a login with a registered e-mail and a wrong password and a login
   with an unregistered e-mail are both answered 401 with the same body, and
   no step that changes the user store is such a login *)
C12_LoginUniform ==
    /\ [](LET wrong == {<<login_status(d), login_body(d)>> :
                             d \in {e \in FilledLogins : WrongPassword(e)}}
               unknown == {<<login_status(d), login_body(d)>> :
                               d \in {e \in FilledLogins : Unregistered(e)}}
           IN  /\ \A answer \in wrong \cup unknown : answer[1] = 401
               /\ \A a1 \in wrong : \A a2 \in unknown : a1 = a2)
    /\ [][users' # users =>
             \A data \in FilledLogins :
                 (WrongPassword(data) \/ Unregistered(data)) => ~login(data)]_vars

(* one user is registered and another e-mail is not: a wrong password for
   the first and any password for the second are both turned away *)
C12_Witness ==
    \E d1, d2 \in FilledLogins :
        /\ WrongPassword(d1) /\ Unregistered(d2)
        /\ d1.password = d2.password
        /\ login_status(d1) = 401 /\ login_status(d2) = 401

(* the tokens of a kind issued to user id *)
IssuedTo(id, type) == {t \in issued : t.sub = id /\ t.type = type}

(* C13: an issued refresh token that has not expired and is not revoked is
   accepted by POST /auth/refresh however often it has been used, and is
   turned away from its expiry on; every token a refresh mints carries a jti
   no token issued before carries *)
C13_RefreshNotRotated ==
    /\ [](\A R \in issued : R.type = "refresh" =>
             /\ (clock < R.exp /\ ~IsRevoked(R)) => refresh_status(R) = 200
             /\ clock >= R.exp => refresh_status(R) = 401)
    /\ [][issued' # issued =>
             \A R \in issued :
                 refresh(R) /\ refresh_status(R) = 200 =>
                     /\ issued \subseteq issued'
                     /\ \A t \in issued' \ issued :
                            t.type = "access" /\ \A o \in issued : o.jti # t.jti]_vars

(* a refresh token has been used twice, after the access token of its pair
   expired, and is accepted again *)
C13_Witness ==
    \E R \in issued :
        /\ R.type = "refresh"
        /\ Cardinality(IssuedTo(R.sub, "access"))
             >= Cardinality(IssuedTo(R.sub, "refresh")) + 2
        /\ \E a \in IssuedTo(R.sub, "access") : clock >= a.exp
        /\ refresh_status(R) = 200

(* C14: a token whose jti was ever revoked is rejected by every
   access-protected endpoint in every state: while its entry is in the
   registry, and after the store has purged the entry, by which time the
   token itself has expired *)
C14_PurgeKeepsRevoked ==
    \A tok \in issued :
        (IsRevoked(tok) \/ tok.jti \in purged) =>
            /\ AccessStatuses(tok) = {401}
            /\ ~IsRevoked(tok) => clock >= tok.exp

(* the entry of a revoked token has been purged and the token is still
   turned away *)
C14_Witness ==
    \E tok \in issued :
        /\ tok.jti \in purged
        /\ ~IsRevoked(tok)
        /\ get_current_user_status(tok) = 401

(* a signup body with a blank name, e-mail or password, or a password
   shorter than the minimum *)
InvalidSignup(data) ==
    \/ Strip(data.name) = << >>
    \/ Strip(data.email) = << >>
    \/ data.password = << >>
    \/ Len(data.password) < MinPasswordLen

(* a signup body whose trimmed, lower-cased e-mail some user has *)
RegisteredSignup(data) == \E u \in users : u.email = Lower(Strip(data.email))

(* C15: a signup with a blank field or a password shorter than 6
   characters is answered 400 and an otherwise valid signup whose normalized
   e-mail is registered is answered 409; no step that creates or modifies a
   user, issues a token or starts a handler is such a signup *)
C15_RejectedSignup ==
    /\ [](\A data \in SignupBodies \ {NoData} :
             /\ InvalidSignup(data) => signup_status(data) = 400
             /\ (~InvalidSignup(data) /\ RegisteredSignup(data)) =>
                    signup_status(data) = 409)
    /\ [][<<users, issued, inflight>>' # <<users, issued, inflight>> =>
             \A data \in SignupBodies \ {NoData} :
                 (InvalidSignup(data) \/ RegisteredSignup(data)) => ~signup(data)]_vars

(* a user is registered: a signup with the padded upper-case variant of the
   user's e-mail is answered 409, and one with a five-character password 400 *)
C15_Witness ==
    /\ \E data \in SignupBodies \ {NoData} :
           /\ data.email = <<"A", " ">>
           /\ RegisteredSignup(data) /\ ~InvalidSignup(data)
           /\ signup_status(data) = 409
    /\ \E data \in SignupBodies \ {NoData} :
           /\ data.password = PwShort
           /\ RegisteredSignup(data)
           /\ signup_status(data) = 400

(* the user documents other than u's are the same before and after *)
OthersUntouched(u) == {v \in users : v.id # u.id} = {v \in users' : v.id # u.id}

(* C16: a login with the e-mail and password of a deactivated user is
   answered 403, mints nothing and leaves last_login alone; a login with
   those of an active user is answered 200, mints an access and a refresh
   token for the user and sets the user's last_login to now *)
C16_LoginNeedsActive ==
    /\ [](\A u \in users : \A data \in LoginsOf(u) :
             login_status(data) = (IF u.is_active THEN 200 ELSE 403))
    /\ [][<<users, issued>>' # <<users, issued>> =>
           \A u \in users : \A data \in LoginsOf(u) :
             login(data) =>
                 IF u.is_active
                 THEN /\ issued' \ issued = {login_tokens(data).access_token,
                                             login_tokens(data).refresh_token}
                      /\ Cardinality(issued') = Cardinality(issued) + 2
                      /\ \A t \in issued' \ issued : t.sub = u.id
                      /\ [u EXCEPT !.last_login = clock] \in users'
                      /\ OthersUntouched(u)
                 ELSE UNCHANGED <<users, issued>>]_vars

(* a user who logged in earlier has been deactivated and is now turned away
   with 403 *)
C16_Witness ==
    \E u \in users :
        /\ ~u.is_active
        /\ u.last_login >= 0
        /\ LoginsOf(u) # {}
        /\ \A data \in LoginsOf(u) : login_status(data) = 403

(* the ?token= values of a stream request by user id: those a client may
   send, and the code the service computes now for each video id, known or
   not *)
StreamCodes(id) == Codes \cup {generate_playback_token(v, id) : v \in VideoIds}

(* the playback token is there and verifies for the video and the user *)
CodeVerifies(tok, v, c) == c # NoCode /\ verify_playback_token(v, tok.sub, c)

(* C17: GET /video/{id}/stream answers 200 only to a playback token that
   verifies for the video id and the authenticated user, for a video that
   exists and is active; an authenticated request is answered 403 when the
   playback token is missing or does not verify or the video is inactive, and
   404 when the token verifies and the video id is unknown *)
C17_StreamGating ==
    \A tok \in LoggedIn : \A v \in VideoIds : \A c \in StreamCodes(tok.sub) :
        LET st == get_video_stream_status(tok, v, c)
            found == find_video_by_id(v)
        IN  /\ st = 200 =>
                   /\ tok # NoToken
                   /\ CodeVerifies(tok, v, c)
                   /\ found # {} /\ \A d \in found : d.is_active
            /\ tok # NoToken =>
                   /\ ~CodeVerifies(tok, v, c) => st = 403
                   /\ (CodeVerifies(tok, v, c) /\ found = {}) => st = 404
                   /\ (CodeVerifies(tok, v, c) /\ \E d \in found : ~d.is_active) =>
                          st = 403
                   /\ (CodeVerifies(tok, v, c) /\ \E d \in found : d.is_active) =>
                          st = 200

(* a stream request has been answered 200 and logged; for the same user a
   missing token is answered 403, a verifying one for the inactive video 403
   and a verifying one for an unknown video id 404 *)
C17_Witness ==
    \E tok \in LoggedIn \ {NoToken} :
        /\ BagIn([user_id |-> tok.sub, video_id |-> "v1",
                  action |-> "stream_requested"], watch_history)
        /\ \E h \in handed : get_video_stream_status(tok, h.video, h.code) = 200
        /\ get_video_stream_status(tok, "v1", NoCode) = 403
        /\ get_video_stream_status(tok, "v3", generate_playback_token("v3", tok.sub)) = 403
        /\ get_video_stream_status(tok, "v0", generate_playback_token("v0", tok.sub)) = 404

(* the users whose signup was stopped before it returned tokens and who
   have not logged in since: no token was ever minted for them *)
Tokenless == {u \in users : \A t \in issued : t.sub # u.id}

(* the well-formed signup bodies for u's e-mail *)
SignupsOf(u) ==
    {data \in SignupBodies \ {NoData} :
        ~InvalidSignup(data) /\ Lower(Strip(data.email)) = Lower(Strip(u.email))}

(* C18: a user stored by a signup that was stopped before its tokens were
   returned can log in, with a token pair the service accepts, unless the
   account has been deactivated since; a retried signup with the user's
   e-mail is answered 409 and no second user with that e-mail is stored *)
C18_InterruptedSignup ==
    \A u \in Tokenless :
        /\ u.is_active =>
               \A data \in LoginsOf(u) :
                   /\ login_status(data) = 200
                   /\ login_user(data) = u
                   /\ get_current_user_status(login_tokens(data).access_token) = 200
                   /\ refresh_status(login_tokens(data).refresh_token) = 200
        /\ \A data \in SignupsOf(u) : signup_status(data) = 409
        /\ \A v \in users : v.email = u.email => v = u

(* a signup has been stopped after its insert: its user has no token, can
   log in, and a signup retried with the e-mail is turned away *)
C18_Witness ==
    \E u \in Tokenless :
        /\ u.is_active
        /\ \E data \in LoginsOf(u) : login_status(data) = 200
        /\ \E data \in SignupsOf(u) : signup_status(data) = 409

(* C20: the registry holds entries only for the jtis of access tokens a
   logout was called with, so every other issued token that has not expired
   is accepted where its kind belongs; a refresh token mints an access token
   that GET /auth/me accepts, whichever of the user's tokens are revoked *)
C20_LogoutRevokesOne ==
    /\ \A e \in tokens : \E tok \in issued :
           tok.jti = e.jti /\ tok.type = "access" /\ tok.sub = e.user_id
    /\ \A tok \in issued :
           (clock < tok.exp /\ ~IsRevoked(tok)) =>
               /\ jwt_required(tok, tok.type = "refresh") = 0
               /\ tok.type = "access" => get_current_user_status(tok) = 200
               /\ tok.type = "refresh" =>
                      /\ refresh_status(tok) = 200
                      /\ \A t \in refresh_mints(tok) :
                             t.sub = tok.sub /\ get_current_user_status(t) = 200

(* a user has logged out with an access token that has not expired; the
   user's refresh token and another of the user's access tokens are accepted *)
C20_Witness ==
    \E a, b, r \in issued :
        /\ a.sub = b.sub /\ a.sub = r.sub
        /\ a.type = "access" /\ IsRevoked(a) /\ clock < a.exp
        /\ get_current_user_status(a) = 401
        /\ b.type = "access" /\ b # a /\ get_current_user_status(b) = 200
        /\ r.type = "refresh" /\ refresh_status(r) = 200

----------------------------------------------------------------------------
(* Properties of the protected endpoints together, under SpecProtected *)

(* the user store, the revocation registry and the watch history *)
stores == <<users, tokens, watch_history>>

(* C19: no step that changes the user store, the revocation registry or
   the watch history is a GET /auth/me, a POST /auth/refresh, a GET
   /dashboard, the decorator of POST /auth/logout or a stream request that
   was not answered 200; the registry changes only by the insert of a logout
   answered 200 and by purge *)
C19_VerificationReadOnly ==
    [][/\ stores' # stores =>
              /\ \A tok \in Tokens :
                     ~get_current_user(tok) /\ ~refresh(tok) /\ ~logout(tok)
              /\ \A tok \in Tokens : ~get_dashboard(tok, 1, 1)
              /\ \A tok \in Tokens : \A v \in VideoIds : \A c \in Codes :
                     get_video_stream_status(tok, v, c) # 200 =>
                         \A log_ok \in BOOLEAN : ~get_video_stream(tok, v, c, log_ok)
       /\ tokens' # tokens =>
              \/ \E r \in InFlight("logout") :
                     /\ logout_insert(r)
                     /\ logout_insert_status(r) = 200
                     /\ tokens' = tokens \cup {revocation(r)}
              \/ \E e \in tokens : purge(e)]_vars

(* a logout has revoked a token, a refresh has minted one, a token has
   expired, and a stream request has been answered 200 and logged *)
C19_Witness ==
    /\ \E tok \in issued : IsRevoked(tok) /\ get_current_user_status(tok) = 401
    /\ \E tok \in issued : clock >= tok.exp /\ refresh_status(tok) = 401
    /\ \E u \in users :
           Cardinality(IssuedTo(u.id, "access")) > Cardinality(IssuedTo(u.id, "refresh"))
    /\ watch_history # EmptyBag

----------------------------------------------------------------------------
(* Properties of watch tracking, under SpecWatch *)

(* the sum of progress_seconds over the events of a bag *)
RECURSIVE SumProgress(_, _)
SumProgress(events, bag) ==
    IF events = {} THEN 0
    ELSE LET e == CHOOSE x \in events : TRUE
         IN  CopiesIn(e, bag) * e.progress_seconds + SumProgress(events \ {e}, bag)

(* the sum of progress_seconds over user id's recorded watch events *)
WatchedBy(id) ==
    SumProgress({e \in BagToSet(watch_history) : e.user_id = id}, watch_history)

(* C21: a watch request for an unknown video is answered 404 and no step
   that adds a watch event is such a request; a watch request for a known
   video is answered 200, and whenever no watch request of a user is part-way
   the user's total_watch_time is the sum of progress_seconds over the user's
   recorded watch events *)
C21_WatchAccounting ==
    /\ [](/\ \A tok \in LoggedIn \ {NoToken} : \A v \in VideoIds :
                 track_video_watch_status(tok, v) =
                     (IF find_video_by_id(v) = {} THEN 404 ELSE 200)
           /\ \A u \in users :
                 (\A r \in InFlight("watch") : r.user_id # u.id) =>
                     u.total_watch_time = WatchedBy(u.id))
    /\ [][watch_history' # watch_history =>
             /\ BagCardinality(watch_history') = BagCardinality(watch_history) + 1
             /\ \A tok \in LoggedIn : \A v \in VideoIds : \A data \in WatchBodies :
                    find_video_by_id(v) = {} => ~track_video_watch(tok, v, data)]_vars

(* watch requests of one user have completed and none is part-way: three
   seconds are recorded in two or more events and three are counted *)
C21_Witness ==
    \E u \in users :
        /\ InFlight("watch") = {}
        /\ BagCardinality(watch_history) >= 2
        /\ WatchedBy(u.id) = 3
        /\ u.total_watch_time = 3

----------------------------------------------------------------------------
(* The stream endpoint's watch log, under SpecPlayback *)

(* C22: a stream request with a verifying playback token for an existing,
   active video is answered 200 with the stream descriptor whether the
   insert into watch_history succeeds or fails, and no step that changes the
   user store, the revocation registry or the watch history is a request
   whose insert failed *)
C22_LogFailureSwallowed ==
    /\ [](\A tok \in LoggedIn \ {NoToken} : \A v \in VideoIds :
             \A c \in StreamCodes(tok.sub) :
                 (CodeVerifies(tok, v, c) /\ \E d \in find_video_by_id(v) : d.is_active) =>
                     \A log_ok \in BOOLEAN :
                         get_video_stream_response(tok, v, c, log_ok) =
                             [status |-> 200, body |-> stream_data(v, 200)])
    /\ [][stores' # stores =>
             \A tok \in LoggedIn : \A v \in VideoIds : \A c \in Codes :
                 ~get_video_stream(tok, v, c, FALSE)]_vars

(* a user holds a playback token that verifies now and nothing is logged:
   the request is answered 200 even when its insert fails *)
C22_Witness ==
    \E h \in handed : \E tok \in LoggedInAs(h.user) :
        /\ CodeVerifies(tok, h.video, h.code)
        /\ watch_history = EmptyBag
        /\ get_video_stream_response(tok, h.video, h.code, FALSE).status = 200
        /\ FALSE \in LogOutcomes(tok, h.video, h.code)

====
